---- MODULE Spec2Model ----
(***************************************************************************)
(* PiOBDII.py: the ELM327 session script and its helpers.                  *)
(*                                                                         *)
(* Text is a sequence of one-character strings; a byte of the serial link  *)
(* is a one-character string too, except that a byte >= 0x80 is written    *)
(* as the token "0xFF".  b'' (what pyserial's read() returns on a timeout) *)
(* is the empty sequence.                                                  *)
(***************************************************************************)
EXTENDS Integers, Sequences, FiniteSets, TLC

\* ------------------------------------------------------------------ bounds
\* reads of one GetResponse call that may time out before the model stops
\* following the (endless) loop
MaxTimeouts == 2
\* longest byte stream (before the prompt) the framer is driven with
MaxStream == 4
\* longest payload the decoder is driven with
MaxPayload == 6
\* most lines of a response the pruners are driven with
MaxLines == 5
\* largest RemoveByteCount the pruners are driven with
MaxRemove == 3

\* ------------------------------------------------------- program constants
ELM_CONNECT_TRY_COUNT == 5
\* TryCount = 5 (the script does not use ELM_CONNECT_TRY_COUNT)
TryCountInit == 5

CR == "\r"
LF == "\n"
PROMPT == ">"
HighByte == "0xFF"
NoByte == << >>

\* "UNABLE TO CONNECT"
UNABLE_TO_CONNECT ==
  <<"U","N","A","B","L","E"," ","T","O"," ","C","O","N","N","E","C","T">>

\* ------------------------------------------------------------ str helpers
\* Line[k:]
SliceFrom(s, k) == IF k >= Len(s) THEN << >> ELSE SubSeq(s, k + 1, Len(s))

\* Line[:k]
SliceTo(s, k) == IF k >= Len(s) THEN s ELSE SubSeq(s, 1, k)

\* s.find(needle) != -1
Contains(s, needle) ==
  \E i \in 1..(Len(s) - Len(needle) + 1) :
    SubSeq(s, i, i + Len(needle) - 1) = needle

\* s.replace(a, b) for single characters a, b
ReplaceChar(s, a, b) == [i \in 1..Len(s) |-> IF s[i] = a THEN b ELSE s[i]]

\* s.replace('\n\n', '\n'): one left-to-right pass over non-overlapping matches
RECURSIVE ReplaceDoubleLF(_)
ReplaceDoubleLF(s) ==
  IF Len(s) < 2 THEN s
  ELSE IF s[1] = LF /\ s[2] = LF
       THEN <<LF>> \o ReplaceDoubleLF(SliceFrom(s, 2))
       ELSE <<s[1]>> \o ReplaceDoubleLF(Tail(s))

\* s.split('\n'): always at least one line
RECURSIVE SplitLF(_)
SplitLF(s) ==
  IF \A i \in 1..Len(s) : s[i] # LF THEN <<s>>
  ELSE LET k == CHOOSE i \in 1..Len(s) :
                  s[i] = LF /\ \A j \in 1..(i - 1) : s[j] # LF
       IN <<SliceTo(s, k - 1)>> \o SplitLF(SliceFrom(s, k))

\* ------------------------------------------------------------ GetResponse
\* return Response.replace('\r', '\n').replace('\n\n', '\n')
Normalize(acc) == ReplaceDoubleLF(ReplaceChar(acc, CR, LF))

\* str(ReadChar, 'utf-8') of one byte (or of b''): a byte >= 0x80 alone is
\* not valid UTF-8
DecodesUtf8(b) == b = NoByte \/ b[1] # HighByte

\* Python values of ReadChar: the int 1 it starts as, then what read() returns
PyInt(n) == [kind |-> "int", val |-> n]
PyBytes(b) == [kind |-> "bytes", val |-> b]
\* a != b: an int and a bytes object are never equal
PyNe(a, b) == ~(a.kind = b.kind /\ a.val = b.val)

KeepReading_StopsOnNoByte(rc) ==
  PyNe(rc, PyBytes(<<PROMPT>>)) /\ PyNe(rc, PyBytes(NoByte))

\* while ReadChar != b'>' and ReadChar != 0
KeepReading(rc) == PyNe(rc, PyBytes(<<PROMPT>>)) /\ PyNe(rc, PyInt(0))

\* --------------------------------------------------------------- pruning
RECURSIVE Concat(_)
Concat(ss) == IF ss = << >> THEN << >> ELSE Head(ss) \o Concat(Tail(ss))

PruneData_OnePerByte(Data, RemoveByteCount) ==
  LET Lines == SplitLF(Data)
  IN Concat([i \in 1..Len(Lines) |-> SliceFrom(Lines[i], RemoveByteCount)])

PruneData_NoSlice(Data, RemoveByteCount) ==
  LET Lines == SplitLF(Data)
  IN Concat([i \in 1..Len(Lines) |-> Lines[i]])

PruneData(Data, RemoveByteCount) ==
  LET Lines == SplitLF(Data)
  IN Concat([i \in 1..Len(Lines) |-> SliceFrom(Lines[i], 2 * RemoveByteCount)])

PruneDataVin_CallerCount(Data, RemoveByteCount) ==
  LET Lines == SplitLF(Data)
  IN Concat([i \in 1..Len(Lines) |->
        IF 2 <= i - 1 /\ i - 1 < 4 THEN SliceFrom(Lines[i], 2)
        ELSE SliceFrom(Lines[i], 2 * RemoveByteCount)])

\* index is 0-based in the source: Lines[i] is the line of index i - 1
PruneDataVin(Data, RemoveByteCount) ==
  LET Lines == SplitLF(Data)
  IN Concat([i \in 1..Len(Lines) |->
        IF i - 1 = 1 THEN SliceFrom(Lines[i], 2 * 4)
        ELSE IF 2 <= i - 1 /\ i - 1 < 4 THEN SliceFrom(Lines[i], 2)
        ELSE SliceFrom(Lines[i], 2 * RemoveByteCount)])

\* ---------------------------------------------------------- int(), fromhex
Digits == <<"0","1","2","3","4","5","6","7","8","9">>
HexDigits == Digits \o <<"A","B","C","D","E","F">>
LowerHexDigits == Digits \o <<"a","b","c","d","e","f">>
Whitespace == {" ", "\t", "\n", "\r"}

IsDigit(c) == \E i \in 1..Len(Digits) : Digits[i] = c
DigitVal(c) == (CHOOSE i \in 1..Len(Digits) : Digits[i] = c) - 1
IsHex(c) == \E i \in 1..16 : HexDigits[i] = c \/ LowerHexDigits[i] = c
HexVal(c) == (CHOOSE i \in 1..16 : HexDigits[i] = c \/ LowerHexDigits[i] = c) - 1

RECURSIVE LStrip(_)
LStrip(s) == IF s # << >> /\ Head(s) \in Whitespace THEN LStrip(Tail(s)) ELSE s
RECURSIVE RStrip(_)
RStrip(s) ==
  IF s # << >> /\ s[Len(s)] \in Whitespace THEN RStrip(SliceTo(s, Len(s) - 1)) ELSE s

RECURSIVE DecimalValue(_)
DecimalValue(ds) ==
  IF ds = << >> THEN 0
  ELSE 10 * DecimalValue(SliceTo(ds, Len(ds) - 1)) + DigitVal(ds[Len(ds)])

\* int(s), base 10: surrounding whitespace and one sign are accepted, then
\* decimal digits only (digit-separating underscores are not modelled: no
\* modelled reply holds one).  ok = FALSE is ValueError.
PyIntParse(s) ==
  LET t == RStrip(LStrip(s))
      u == IF t # << >> /\ Head(t) \in {"+", "-"} THEN Tail(t) ELSE t
  IN IF u # << >> /\ \A i \in 1..Len(u) : IsDigit(u[i])
     THEN [ok |-> TRUE, val |-> DecimalValue(u)]
     ELSE [ok |-> FALSE, val |-> 0]

\* bytearray.fromhex(s): whitespace is skipped before each pair, a pair is two
\* hex digits.  ok = FALSE is ValueError.
RECURSIVE FromHex(_)
FromHex(s) ==
  LET t == LStrip(s)
  IN IF t = << >> THEN [ok |-> TRUE, bytes |-> << >>]
     ELSE IF Len(t) < 2 \/ ~IsHex(t[1]) \/ ~IsHex(t[2])
          THEN [ok |-> FALSE, bytes |-> << >>]
          ELSE LET rest == FromHex(SliceFrom(t, 2))
               IN [ok |-> rest.ok,
                   bytes |-> <<16 * HexVal(t[1]) + HexVal(t[2])>> \o rest.bytes]

\* chr(n) for n < 128; a control character, and each of \x22 \x5C \x60, is
\* written as a token
AsciiChars ==
  <<
    "0x00", "0x01", "0x02", "0x03", "0x04", "0x05", "0x06", "0x07",
    "0x08", "\t", "\n", "0x0B", "0x0C", "\r", "0x0E", "0x0F",
    "0x10", "0x11", "0x12", "0x13", "0x14", "0x15", "0x16", "0x17",
    "0x18", "0x19", "0x1A", "0x1B", "0x1C", "0x1D", "0x1E", "0x1F",
    " ", "!", "0x22", "#", "$", "%", "&", "'",
    "(", ")", "*", "+", ",", "-", ".", "/",
    "0", "1", "2", "3", "4", "5", "6", "7",
    "8", "9", ":", ";", "<", "=", ">", "?",
    "@", "A", "B", "C", "D", "E", "F", "G",
    "H", "I", "J", "K", "L", "M", "N", "O",
    "P", "Q", "R", "S", "T", "U", "V", "W",
    "X", "Y", "Z", "[", "0x5C", "]", "^", "_",
    "0x60", "a", "b", "c", "d", "e", "f", "g",
    "h", "i", "j", "k", "l", "m", "n", "o",
    "p", "q", "r", "s", "t", "u", "v", "w",
    "x", "y", "z", "{", "|", "}", "~", "0x7F"
  >>

\* str(bytearray.fromhex(Response).replace(bytes([0x00]), b' '), 'UTF-8')
\* exc is the exception raised, "none" when the text is returned.  A byte
\* >= 0x80 is taken as undecodable: the modelled replies hold no valid
\* multi-byte sequence.
VinText(pruned) ==
  LET h == FromHex(pruned)
      b == [i \in 1..Len(h.bytes) |-> IF h.bytes[i] = 0 THEN 32 ELSE h.bytes[i]]
  IN IF ~h.ok THEN [exc |-> "ValueError", text |-> << >>]
     ELSE IF \E i \in 1..Len(b) : b[i] >= 128
          THEN [exc |-> "UnicodeDecodeError", text |-> << >>]
          ELSE [exc |-> "none", text |-> [i \in 1..Len(b) |-> AsciiChars[b[i] + 1]]]

\* ------------------------------------------------------- lookup tables
\* TroubleCodePrefix.txt as the dict the script loads: the SAE table, and a
\* table that maps only the digit 0
SaePrefix ==
  [c \in {"0","1","2","3","4","5","6","7","8","9","A","B","C","D","E","F"} |->
     IF c \in {"0","1","2","3"} THEN <<"P">>
     ELSE IF c \in {"4","5","6","7"} THEN <<"C">>
     ELSE IF c \in {"8","9","A","B"} THEN <<"B">>
     ELSE <<"U">>]
ZeroOnlyPrefix == [c \in {"0"} |-> <<"P">>]
PrefixTables == {SaePrefix, ZeroOnlyPrefix}

\* TroubleCodes-*.txt as the dict the script loads
TroubleCodeDescriptions ==
  <<"P","1","3","3">> :> "O2 Sensor Circuit Slow Response"

\* ----------------------------------------------------- DataToTroubleCodes
\* one pass of the while loop (lines 147-150) on Data with the codes so far:
\* exc is "none", or the exception int() or the table lookup raises
DecodeGroup(Table, Data, Codes) ==
  LET ThisCode == SliceTo(Data, 4)
      n == PyIntParse(ThisCode)
  IN IF ~n.ok THEN [exc |-> "ValueError", Data |-> Data, Codes |-> Codes]
     ELSE IF n.val # 0
          THEN IF ThisCode[1] \in DOMAIN Table
               THEN [exc |-> "none", Data |-> SliceFrom(Data, 4),
                     Codes |-> Append(Codes, Table[ThisCode[1]] \o SliceFrom(ThisCode, 1))]
               ELSE [exc |-> "KeyError", Data |-> Data, Codes |-> Codes]
          ELSE [exc |-> "none", Data |-> SliceFrom(Data, 4), Codes |-> Codes]

\* ----------------------------------------------------- GetTroubleCodeData
\* lines 165-170: one entry per code, the description one element of the text
DescribeCode_DropsMissing(TroubleCode) ==
  IF TroubleCode \in DOMAIN TroubleCodeDescriptions
  THEN TroubleCode \o <<" ", ":", " ">>
         \o <<TroubleCodeDescriptions[TroubleCode]>> \o <<LF>>
  ELSE << >>
DescribeCode(TroubleCode) ==
  TroubleCode \o <<" ", ":", " ">>
    \o (IF TroubleCode \in DOMAIN TroubleCodeDescriptions
        THEN <<TroubleCodeDescriptions[TroubleCode]>>
        ELSE <<"[DESCRIPTION NOT FOUND]">>)
    \o <<LF>>

RECURSIVE FormatTroubleCodes(_)
FormatTroubleCodes(Codes) ==
  IF Codes = << >> THEN << >>
  ELSE DescribeCode(Head(Codes)) \o FormatTroubleCodes(Tail(Codes))

\* ------------------------------------------------------------ the adapter
\* what the ELM327 sends back to a command: "" is an adapter that stays silent
BoundedSeq(S, n) == UNION {[1..k -> S] : k \in 0..n}

OkReply == <<"O","K",CR,CR,PROMPT>>
EchoOkReply == <<"A","T"," ","E","0",CR,"O","K",CR,CR,PROMPT>>
AtReplies ==
  { OkReply, <<"?",CR,CR,PROMPT>>, <<"O","K",CR>>, << >>, <<HighByte,PROMPT>> }
ProbeReplies ==
  { UNABLE_TO_CONNECT \o <<CR,CR,PROMPT>>, <<"4","1","0","0",CR,CR,PROMPT>>, << >> }
NoDataReply == <<"N","O"," ","D","A","T","A",CR,CR,PROMPT>>
VinReplies ==
  { <<"0","1","4",CR,"0",":","4","9","0","2","0","1","3","1",CR,
      "1",":","4","1","4","2",CR,"2",":","0","0",CR,CR,PROMPT>>,
    <<"0","1","4",CR,"0",":","4","9","0","2","0","1","3","1",CR,
      "1",":","F","F",CR,CR,PROMPT>>,
    NoDataReply }
DtcReplies ==
  { <<"4","3","0","1","3","3","0","0","0","0",CR,CR,PROMPT>>,
    <<"4","3","0","1","3","3","0","1",CR,CR,PROMPT>>,
    <<"4","3","9","1","2","3",CR,CR,PROMPT>>,
    <<"4","3","0","1","3","3","C","1","2","3",CR,CR,PROMPT>>,
    NoDataReply }
FramerBytes == {"O", CR, LF, HighByte}
FramerReplies ==
  BoundedSeq(FramerBytes, MaxStream)
    \cup {s \o <<PROMPT>> : s \in BoundedSeq(FramerBytes, MaxStream)}
DecoderChars == {"0", "1", "C"}

ConfigSites == {"echoOff", "spacesOff", "setProto", "setBaud"}
InfoSites == {"ident1", "ident2", "volts"}
DtcSites == {"dtc03", "dtc07", "dtc0A"}
DiagSites == {"getDP", "getVIN"} \cup DtcSites

\* the bytes each call of GetResponse writes
Command(site) ==
  CASE site = "reset" -> "AT Z\r"
    [] site = "echoOff" -> "AT E0\r"
    [] site = "spacesOff" -> "AT S0\r"
    [] site = "setProto" -> "AT SP A3\r"
    [] site = "setBaud" -> "AT IB 10\r"
    [] site = "ident1" -> "AT @1\r"
    [] site = "ident2" -> "AT @2\r"
    [] site = "volts" -> "AT RV\r"
    [] site = "probe" -> "0100\r"
    [] site = "getDP" -> "AT DP\r"
    [] site = "getVIN" -> "0902\r"
    [] site = "dtc03" -> "03\r"
    [] site = "dtc07" -> "07\r"
    [] site = "dtc0A" -> "0A\r"
    [] site = "framer" -> "\r"

Replies(site) ==
  CASE site = "echoOff" -> AtReplies \cup {EchoOkReply}
    [] site = "probe" -> ProbeReplies
    [] site = "getVIN" -> VinReplies
    [] site \in DtcSites -> DtcReplies
    [] site = "framer" -> FramerReplies
    [] OTHER -> AtReplies

\* the statement after each call of the script
NextSite(site) ==
  CASE site = "reset" -> "echoOff"
    [] site = "echoOff" -> "spacesOff"
    [] site = "spacesOff" -> "setProto"
    [] site = "setProto" -> "setBaud"
    [] site = "setBaud" -> "ident1"
    [] site = "ident1" -> "ident2"
    [] site = "ident2" -> "volts"
    [] site = "volts" -> "loopTest"
    [] site = "getDP" -> "getVIN"
    [] site = "getVIN" -> "dtc03"
    [] site = "dtc03" -> "dtc07"
    [] site = "dtc07" -> "dtc0A"
    [] site = "dtc0A" -> "close"

\* if Response != 'AT E0\nOK\n' / if Response != 'OK\n'
Expected(site) ==
  IF site = "echoOff" THEN <<"A","T"," ","E","0",LF,"O","K",LF>>
  ELSE <<"O","K",LF>>

\* while Response.find("UNABLE TO CONNECT") != -1 and TryCount > 0
LoopCond_OneMore(Resp, Count) == Contains(Resp, UNABLE_TO_CONNECT) /\ Count >= 0
LoopCond(Resp, Count) == Contains(Resp, UNABLE_TO_CONNECT) /\ Count > 0

\* if Response.find("UNABLE TO CONNECT") != -1 (line 263)
ConnectFailed_OnExhaustion(Resp, Count) ==
  Contains(Resp, UNABLE_TO_CONNECT) \/ Count = 0
ConnectFailed_Never(Resp, Count) == FALSE
ConnectFailed(Resp, Count) == Contains(Resp, UNABLE_TO_CONNECT)

\* lines 214-215, 219-220, 224-225, 229-230: the if only prints, the script
\* goes on with the next statement
OnMismatch_Quits(site) == "quit"
OnMismatch(site) == NextSite(site)

\* quit() ends the script
AfterQuit_FallsThrough == "getDP"
AfterQuit == "quit"

\* ------------------------------------------------------------------ state
VARIABLES
  pc,                \* the statement of the script that runs or is called
  phase,             \* "call", "read" (GetResponse), "decode"
                     \* (DataToTroubleCodes), "script"
  ReadChar,          \* GetResponse: ReadChar
  grResponse,        \* GetResponse: Response
  Response,          \* the script's Response
  TryCount,
  Data,              \* DataToTroubleCodes: Data
  TroubleCodes,      \* DataToTroubleCodes: TroubleCodes
  TroubleCodePrefix,
  exc,               \* the exception that ended the script, or "none"
  warned,            \* the sites whose "FAILED: ..." line was printed
  closeCount,        \* calls of ELM327.close()
  wire,              \* the bytes the adapter has still to deliver
  written,           \* every command written to the serial port, in order
  timeouts,          \* reads of this GetResponse call that returned b''
  probeLog,          \* per answered probe: did it hold "UNABLE TO CONNECT"
  payload,           \* DataToTroubleCodes: its argument
  nGroups,           \* DataToTroubleCodes: passes of the loop completed
  srcGroups,         \* DataToTroubleCodes: the group each code came from
  RemoveByteCount,   \* PruneData, PruneDataVin: RemoveByteCount
  pruneCount,        \* pruner calls on the text GetResponse returned last
  tick               \* parity of the read() calls of this GetResponse call

vars ==
  <<pc, phase, ReadChar, grResponse, Response, TryCount, Data, TroubleCodes,
    TroubleCodePrefix, exc, warned, closeCount, wire, written, timeouts,
    probeLog, payload, nGroups, srcGroups, RemoveByteCount, pruneCount, tick>>

frameVars == <<ReadChar, grResponse, wire, timeouts, tick>>
decodeVars == <<Data, TroubleCodes, payload, nGroups, srcGroups>>
pruneVars == <<RemoveByteCount, pruneCount>>

InitCommon ==
  /\ ReadChar = PyInt(1)
  /\ grResponse = << >>
  /\ Response = << >>
  /\ TryCount = TryCountInit
  /\ TroubleCodes = << >>
  /\ TroubleCodePrefix \in PrefixTables
  /\ exc = "none"
  /\ warned = {}
  /\ closeCount = 0
  /\ wire = << >>
  /\ written = << >>
  /\ timeouts = 0
  /\ probeLog = << >>
  /\ nGroups = 0
  /\ srcGroups = << >>
  /\ pruneCount = 0
  /\ tick = FALSE

\* the script after the serial port is opened (lines 202-206)
Init ==
  /\ InitCommon
  /\ pc = "reset"
  /\ phase = "call"
  /\ Data = << >>
  /\ payload = << >>
  /\ RemoveByteCount = 0

\* ------------------------------------------------------------ GetResponse
\* lines 89-91: SerialCon.write(Data); Response = ""; ReadChar = 1
GetResponseWrite ==
  /\ exc = "none"
  /\ phase = "call"
  /\ written' = Append(written, Command(pc))
  /\ \E reply \in Replies(pc) : wire' = reply
  /\ grResponse' = << >>
  /\ ReadChar' = PyInt(1)
  /\ timeouts' = 0
  /\ tick' = FALSE
  /\ pruneCount' = 0
  /\ phase' = "read"
  /\ UNCHANGED <<pc, Response, TryCount, TroubleCodePrefix, exc, warned,
                 closeCount, probeLog, RemoveByteCount>>
  /\ UNCHANGED decodeVars

\* lines 92-95, read() returns a byte that is kept or is the prompt
GetResponseReadByte ==
  /\ exc = "none"
  /\ phase = "read"
  /\ KeepReading(ReadChar)
  /\ wire # << >>
  /\ DecodesUtf8(<<Head(wire)>>)
  /\ ReadChar' = PyBytes(<<Head(wire)>>)
  /\ wire' = Tail(wire)
  /\ grResponse' = IF PyNe(ReadChar', PyBytes(<<PROMPT>>))
                   THEN Append(grResponse, Head(wire))
                   ELSE grResponse
  /\ tick' = ~tick
  /\ UNCHANGED <<pc, phase, Response, TryCount, TroubleCodePrefix, exc, warned,
                 closeCount, written, timeouts, probeLog>>
  /\ UNCHANGED decodeVars
  /\ UNCHANGED pruneVars

\* lines 92-95, read() returns a byte str(ReadChar, 'utf-8') cannot decode
GetResponseReadRaise ==
  /\ exc = "none"
  /\ phase = "read"
  /\ KeepReading(ReadChar)
  /\ wire # << >>
  /\ ~DecodesUtf8(<<Head(wire)>>)
  /\ ReadChar' = PyBytes(<<Head(wire)>>)
  /\ wire' = Tail(wire)
  /\ exc' = "UnicodeDecodeError"
  /\ tick' = ~tick
  /\ UNCHANGED <<pc, phase, grResponse, Response, TryCount, TroubleCodePrefix,
                 warned, closeCount, written, timeouts, probeLog>>
  /\ UNCHANGED decodeVars
  /\ UNCHANGED pruneVars

\* lines 92-95, read() times out and returns b'': str(b'', 'utf-8') is "".
\* timeouts counts these reads up to MaxTimeouts.
GetResponseReadTimeout ==
  /\ exc = "none"
  /\ phase = "read"
  /\ KeepReading(ReadChar)
  /\ wire = << >>
  /\ ReadChar' = PyBytes(NoByte)
  /\ timeouts' = IF timeouts < MaxTimeouts THEN timeouts + 1 ELSE timeouts
  /\ tick' = ~tick
  /\ UNCHANGED <<pc, phase, grResponse, Response, TryCount, TroubleCodePrefix,
                 exc, warned, closeCount, wire, written, probeLog>>
  /\ UNCHANGED decodeVars
  /\ UNCHANGED pruneVars

\* line 96: the loop is left and the text returned
Returns == exc = "none" /\ phase = "read" /\ ~KeepReading(ReadChar)
Returned == Normalize(grResponse)

\* ------------------------------------------------------------- the script
\* lines 209-210
ResetDone ==
  /\ Returns
  /\ pc = "reset"
  /\ Response' = Returned
  /\ pc' = NextSite(pc)
  /\ phase' = "call"
  /\ UNCHANGED <<TryCount, TroubleCodePrefix, exc, warned, closeCount, written,
                 probeLog>>
  /\ UNCHANGED frameVars
  /\ UNCHANGED decodeVars
  /\ UNCHANGED pruneVars

\* lines 213-230: a reply that is not the expected text prints FAILED
ConfigDone ==
  /\ Returns
  /\ pc \in ConfigSites
  /\ Response' = Returned
  /\ warned' = IF Returned # Expected(pc) THEN warned \cup {pc} ELSE warned
  /\ pc' = IF Returned # Expected(pc) THEN OnMismatch(pc) ELSE NextSite(pc)
  /\ phase' = IF pc' = "quit" THEN "script" ELSE "call"
  /\ UNCHANGED <<TryCount, TroubleCodePrefix, exc, closeCount, written, probeLog>>
  /\ UNCHANGED frameVars
  /\ UNCHANGED decodeVars
  /\ UNCHANGED pruneVars

\* lines 233-247: after AT RV, TryCount = 5 and Response = "UNABLE TO CONNECT"
InfoDone ==
  /\ Returns
  /\ pc \in InfoSites
  /\ pc' = NextSite(pc)
  /\ IF pc = "volts"
     THEN /\ Response' = UNABLE_TO_CONNECT
          /\ TryCount' = TryCountInit
          /\ phase' = "script"
     ELSE /\ Response' = Returned
          /\ TryCount' = TryCount
          /\ phase' = "call"
  /\ UNCHANGED <<TroubleCodePrefix, exc, warned, closeCount, written, probeLog>>
  /\ UNCHANGED frameVars
  /\ UNCHANGED decodeVars
  /\ UNCHANGED pruneVars

\* lines 248-258: the loop test holds, TryCount -= 1, the settle period passes
ConnectLoopEnter ==
  /\ exc = "none"
  /\ pc = "loopTest"
  /\ LoopCond(Response, TryCount)
  /\ TryCount' = TryCount - 1
  /\ pc' = "probe"
  /\ phase' = "call"
  /\ UNCHANGED <<Response, TroubleCodePrefix, exc, warned, closeCount, written,
                 probeLog>>
  /\ UNCHANGED frameVars
  /\ UNCHANGED decodeVars
  /\ UNCHANGED pruneVars

\* line 248: the loop test fails
ConnectLoopExit ==
  /\ exc = "none"
  /\ pc = "loopTest"
  /\ ~LoopCond(Response, TryCount)
  /\ pc' = "failCheck"
  /\ UNCHANGED <<phase, Response, TryCount, TroubleCodePrefix, exc, warned,
                 closeCount, written, probeLog>>
  /\ UNCHANGED frameVars
  /\ UNCHANGED decodeVars
  /\ UNCHANGED pruneVars

\* lines 260-262
ProbeDone ==
  /\ Returns
  /\ pc = "probe"
  /\ Response' = Returned
  /\ probeLog' = Append(probeLog, Contains(Returned, UNABLE_TO_CONNECT))
  /\ pc' = "loopTest"
  /\ phase' = "script"
  /\ UNCHANGED <<TryCount, TroubleCodePrefix, exc, warned, closeCount, written>>
  /\ UNCHANGED frameVars
  /\ UNCHANGED decodeVars
  /\ UNCHANGED pruneVars

\* lines 263-267: ELM327.close(); quit()
FailedToConnect ==
  /\ exc = "none"
  /\ pc = "failCheck"
  /\ ConnectFailed(Response, TryCount)
  /\ closeCount' = closeCount + 1
  /\ pc' = AfterQuit
  /\ phase' = IF AfterQuit = "quit" THEN "script" ELSE "call"
  /\ UNCHANGED <<Response, TryCount, TroubleCodePrefix, exc, warned, written,
                 probeLog>>
  /\ UNCHANGED frameVars
  /\ UNCHANGED decodeVars
  /\ UNCHANGED pruneVars

\* line 263: the test fails, the script goes on to line 270
BusConnected ==
  /\ exc = "none"
  /\ pc = "failCheck"
  /\ ~ConnectFailed(Response, TryCount)
  /\ pc' = "getDP"
  /\ phase' = "call"
  /\ UNCHANGED <<Response, TryCount, TroubleCodePrefix, exc, warned, closeCount,
                 written, probeLog>>
  /\ UNCHANGED frameVars
  /\ UNCHANGED decodeVars
  /\ UNCHANGED pruneVars

\* lines 270-271
ProtocolDone ==
  /\ Returns
  /\ pc = "getDP"
  /\ Response' = Returned
  /\ pc' = NextSite(pc)
  /\ phase' = "call"
  /\ UNCHANGED <<TryCount, TroubleCodePrefix, exc, warned, closeCount, written,
                 probeLog>>
  /\ UNCHANGED frameVars
  /\ UNCHANGED decodeVars
  /\ UNCHANGED pruneVars

\* lines 274-277: line 275 assigns the pruned text, line 276 may raise
VinDone ==
  /\ Returns
  /\ pc = "getVIN"
  /\ LET pruned == PruneDataVin(Returned, 3)
         vin == VinText(pruned)
     IN /\ exc' = vin.exc
        /\ Response' = IF vin.exc = "none" THEN vin.text ELSE pruned
        /\ pc' = IF vin.exc = "none" THEN NextSite(pc) ELSE pc
        /\ phase' = IF vin.exc = "none" THEN "call" ELSE "script"
  /\ pruneCount' = pruneCount + 1
  /\ UNCHANGED <<TryCount, TroubleCodePrefix, warned, closeCount, written,
                 probeLog, RemoveByteCount>>
  /\ UNCHANGED frameVars
  /\ UNCHANGED decodeVars

\* lines 161-164: GetTroubleCodeData prunes and calls DataToTroubleCodes
GetTroubleCodeDataPrune ==
  /\ Returns
  /\ pc \in DtcSites
  /\ Data' = PruneData(Returned, 1)
  /\ payload' = Data'
  /\ TroubleCodes' = << >>
  /\ nGroups' = 0
  /\ srcGroups' = << >>
  /\ phase' = "decode"
  /\ pruneCount' = pruneCount + 1
  /\ UNCHANGED <<pc, Response, TryCount, TroubleCodePrefix, exc, warned,
                 closeCount, written, probeLog, RemoveByteCount>>
  /\ UNCHANGED frameVars

\* lines 146-150: one pass of the loop of DataToTroubleCodes
DataToTroubleCodesLoop ==
  /\ exc = "none"
  /\ phase = "decode"
  /\ Len(Data) > 0
  /\ LET r == DecodeGroup(TroubleCodePrefix, Data, TroubleCodes)
     IN /\ exc' = r.exc
        /\ Data' = r.Data
        /\ TroubleCodes' = r.Codes
        /\ nGroups' = IF r.exc = "none" THEN nGroups + 1 ELSE nGroups
        /\ srcGroups' = IF Len(r.Codes) > Len(TroubleCodes)
                        THEN Append(srcGroups, SliceTo(Data, 4))
                        ELSE srcGroups
  /\ UNCHANGED <<pc, phase, Response, TryCount, TroubleCodePrefix, warned,
                 closeCount, written, probeLog, payload>>
  /\ UNCHANGED frameVars
  /\ UNCHANGED pruneVars

\* lines 151, 165-171 and the script's Response = GetTroubleCodeData(...)
GetTroubleCodeDataDone ==
  /\ exc = "none"
  /\ phase = "decode"
  /\ pc \in DtcSites
  /\ Len(Data) = 0
  /\ Response' = FormatTroubleCodes(TroubleCodes)
  /\ pc' = NextSite(pc)
  /\ phase' = IF pc = "dtc0A" THEN "script" ELSE "call"
  /\ UNCHANGED <<TryCount, TroubleCodePrefix, exc, warned, closeCount, written,
                 probeLog>>
  /\ UNCHANGED frameVars
  /\ UNCHANGED decodeVars
  /\ UNCHANGED pruneVars

\* line 298
CloseSerial ==
  /\ exc = "none"
  /\ pc = "close"
  /\ closeCount' = closeCount + 1
  /\ pc' = "end"
  /\ UNCHANGED <<phase, Response, TryCount, TroubleCodePrefix, exc, warned,
                 written, probeLog>>
  /\ UNCHANGED frameVars
  /\ UNCHANGED decodeVars
  /\ UNCHANGED pruneVars

Next ==
  \/ GetResponseWrite
  \/ GetResponseReadByte
  \/ GetResponseReadRaise
  \/ GetResponseReadTimeout
  \/ ResetDone
  \/ ConfigDone
  \/ InfoDone
  \/ ConnectLoopEnter
  \/ ConnectLoopExit
  \/ ProbeDone
  \/ FailedToConnect
  \/ BusConnected
  \/ ProtocolDone
  \/ VinDone
  \/ GetTroubleCodeDataPrune
  \/ DataToTroubleCodesLoop
  \/ GetTroubleCodeDataDone
  \/ CloseSerial

Spec == Init /\ [][Next]_vars

\* the interpreter runs the next statement whenever there is one
SpecLive == Init /\ [][Next]_vars /\ WF_vars(Next)

\* ------------------------------------------- GetResponse on its own
InitFramer ==
  /\ InitCommon
  /\ pc = "framer"
  /\ phase = "call"
  /\ Data = << >>
  /\ payload = << >>
  /\ RemoveByteCount = 0

FramerReturn ==
  /\ Returns
  /\ pc = "framer"
  /\ Response' = Returned
  /\ pc' = "framerDone"
  /\ phase' = "script"
  /\ UNCHANGED <<TryCount, TroubleCodePrefix, exc, warned, closeCount, written,
                 probeLog>>
  /\ UNCHANGED frameVars
  /\ UNCHANGED decodeVars
  /\ UNCHANGED pruneVars

NextFramer ==
  \/ GetResponseWrite
  \/ GetResponseReadByte
  \/ GetResponseReadRaise
  \/ GetResponseReadTimeout
  \/ FramerReturn

SpecFramer == InitFramer /\ [][NextFramer]_vars

\* ------------------------------------- DataToTroubleCodes on its own
InitDecoder ==
  /\ InitCommon
  /\ pc = "decoder"
  /\ phase = "decode"
  /\ Data \in BoundedSeq(DecoderChars, MaxPayload)
  /\ payload = Data
  /\ RemoveByteCount = 0

\* line 151: return TroubleCodes
DecoderReturn ==
  /\ exc = "none"
  /\ phase = "decode"
  /\ pc = "decoder"
  /\ Len(Data) = 0
  /\ pc' = "decoderDone"
  /\ phase' = "script"
  /\ UNCHANGED <<Response, TryCount, TroubleCodePrefix, exc, warned, closeCount,
                 written, probeLog>>
  /\ UNCHANGED frameVars
  /\ UNCHANGED decodeVars
  /\ UNCHANGED pruneVars

NextDecoder ==
  \/ DataToTroubleCodesLoop
  \/ DecoderReturn

SpecDecoder == InitDecoder /\ [][NextDecoder]_vars

\* ------------------------------------------ the pruners on their own
\* the lines a response is made of
LineSamples ==
  { << >>,
    <<"a","b","4","1","2","3">>,
    <<"0","0","a","a","b","b","c","c","d","d","e","e">> }

\* '\n'.join(lines)
RECURSIVE JoinLF(_)
JoinLF(lines) ==
  IF Len(lines) = 0 THEN << >>
  ELSE IF Len(lines) = 1 THEN lines[1]
  ELSE lines[1] \o <<LF>> \o JoinLF(Tail(lines))

PrunerInputs == {JoinLF(lines) : lines \in BoundedSeq(LineSamples, MaxLines)}

InitPruner ==
  /\ InitCommon
  /\ pc = "pruner"
  /\ phase = "script"
  /\ Data \in PrunerInputs
  /\ payload = << >>
  /\ RemoveByteCount \in 0..MaxRemove

\* Response = PruneData(Data, RemoveByteCount)
PruneDataCall ==
  /\ pc = "pruner"
  /\ Response' = PruneData(Data, RemoveByteCount)
  /\ pruneCount' = pruneCount + 1
  /\ pc' = "pruned"
  /\ UNCHANGED <<phase, TryCount, TroubleCodePrefix, exc, warned, closeCount,
                 written, probeLog, RemoveByteCount>>
  /\ UNCHANGED frameVars
  /\ UNCHANGED decodeVars

\* Response = PruneData(Response, RemoveByteCount), on a pruned payload:
\* payload keeps the text that is pruned again
PruneDataAgain ==
  /\ pc = "pruned"
  /\ payload' = Response
  /\ Response' = PruneData(Response, RemoveByteCount)
  /\ pruneCount' = pruneCount + 1
  /\ pc' = "prunedTwice"
  /\ UNCHANGED <<phase, TryCount, TroubleCodePrefix, exc, warned, closeCount,
                 written, probeLog, RemoveByteCount>>
  /\ UNCHANGED <<Data, TroubleCodes, nGroups, srcGroups>>
  /\ UNCHANGED frameVars

\* Response = PruneDataVin(Data, RemoveByteCount)
PruneDataVinCall ==
  /\ pc = "pruner"
  /\ Response' = PruneDataVin(Data, RemoveByteCount)
  /\ pruneCount' = pruneCount + 1
  /\ pc' = "prunedVin"
  /\ UNCHANGED <<phase, TryCount, TroubleCodePrefix, exc, warned, closeCount,
                 written, probeLog, RemoveByteCount>>
  /\ UNCHANGED frameVars
  /\ UNCHANGED decodeVars

NextPruner ==
  \/ PruneDataCall
  \/ PruneDataAgain
  \/ PruneDataVinCall

SpecPruner == InitPruner /\ [][NextPruner]_vars

\* the pruners on their own and in the script
InitPruning == Init \/ InitPruner
NextPruning == Next \/ NextPruner
SpecPruning == InitPruning /\ [][NextPruning]_vars

\* ------------------------------------------------------------ link state
\* the state of section 4.4 the script is in, by the statement it is at
LinkState ==
  CASE pc = "reset" -> "Disconnected"
    [] pc \in ConfigSites \cup InfoSites -> "Initializing"
    [] pc \in {"loopTest", "probe", "failCheck"} -> "AwaitingBusConnect"
    [] pc \in DiagSites \cup {"close"} -> "Connected"
    [] pc = "quit" -> "Failed"
    [] pc = "end" -> "Closed"
    [] OTHER -> "None"

\* the script has ended: quit(), the last line, or an exception nobody catches
SessionEnded == pc \in {"quit", "end"} \/ exc # "none"

ProbesSent == Cardinality({i \in DOMAIN written : written[i] = Command("probe")})
AllUnable == \A i \in DOMAIN probeLog : probeLog[i]
HasSuccess == \E i \in DOMAIN probeLog : ~probeLog[i]
DiagCommands == {Command(s) : s \in DiagSites}

\* ------------------------------------------------------------------ claims

\* C1: when every probe (0100) is answered with a text holding "UNABLE TO
\* CONNECT", exactly ELM_CONNECT_TRY_COUNT probes are sent: the session keeps
\* trying while fewer were sent, never sends one more, and then ends Failed
\* with the serial port closed exactly once.
C1_RetryExhaustion ==
  /\ ProbesSent <= ELM_CONNECT_TRY_COUNT
  /\ LinkState = "Failed" =>
       /\ ProbesSent = ELM_CONNECT_TRY_COUNT
       /\ Len(probeLog) = ELM_CONNECT_TRY_COUNT
       /\ AllUnable
       /\ closeCount = 1
  /\ (AllUnable /\ Len(probeLog) = ELM_CONNECT_TRY_COUNT) =>
       LinkState \in {"AwaitingBusConnect", "Failed"}
  /\ (AllUnable /\ Len(probeLog) = ProbesSent /\ exc = "none"
        /\ ProbesSent < ELM_CONNECT_TRY_COUNT
        /\ LinkState \notin {"Disconnected", "Initializing"}) =>
       (LinkState = "AwaitingBusConnect" /\ closeCount = 0)

C1_Witness ==
  LinkState = "Failed" /\ ProbesSent = ELM_CONNECT_TRY_COUNT /\ closeCount = 1

\* C2: whenever the session has ended after the port was opened, by quit(),
\* by the last line or by an exception, the port has been closed.
C2_ClosedOnEveryExit == SessionEnded => closeCount >= 1

\* C3: in GetResponse, after a read that returned no byte no further read is
\* made (the framer returns what it has).
C3_StopsOnNoByte == timeouts <= 1

\* C4: the text GetResponse returns for a stream ending with the prompt holds
\* no prompt, no carriage return and no two consecutive line-breaks.
C4_Normalized ==
  pc = "framerDone" =>
    /\ \A i \in DOMAIN Response : Response[i] \notin {PROMPT, CR}
    /\ \A i \in 1..(Len(Response) - 1) : ~(Response[i] = LF /\ Response[i + 1] = LF)

\* C5: the connect loop stops at the first probe whose answer does not hold
\* "UNABLE TO CONNECT": only the last answered probe can be such a one, no
\* probe is sent after it, at most ELM_CONNECT_TRY_COUNT probes are sent, and
\* the session is (or was) Connected exactly when there is one, also when it
\* is the last permitted attempt.
C5_StopsAtFirstSuccess ==
  /\ \A i \in 1..(Len(probeLog) - 1) : probeLog[i]
  /\ HasSuccess => ProbesSent = Len(probeLog)
  /\ ProbesSent <= ELM_CONNECT_TRY_COUNT
  /\ LinkState \in {"Connected", "Closed"} => HasSuccess
  /\ HasSuccess =>
       \/ LinkState \in {"Connected", "Closed"}
       \/ pc \in {"loopTest", "failCheck"}

C5_Witness ==
  LinkState = "Connected" /\ ProbesSent = ELM_CONNECT_TRY_COUNT /\ TryCount = 0

\* C6: a diagnostic request (AT DP, 0902, 03, 07, 0A) is written only in
\* state Connected, after a probe answer that did not hold "UNABLE TO
\* CONNECT".
C6_DiagOnlyWhenConnected ==
  [][(written' # written /\ written'[Len(written')] \in DiagCommands)
       => (LinkState = "Connected" /\ HasSuccess)]_vars

C6_Witness ==
  \E i \in DOMAIN written : written[i] = Command("dtc0A")

\* C7: once the serial port has been closed, no command is written and no
\* byte is read.
C7_NothingAfterClose ==
  [][closeCount > 0 =>
       /\ written' = written
       /\ wire' = wire
       /\ timeouts' = timeouts
       /\ tick' = tick
       /\ grResponse' = grResponse]_vars

C7_Witness ==
  closeCount = 1 /\ LinkState \in {"Failed", "Closed"} /\ Len(written) > 0

\* the groups of 4 characters of a payload, in order (the last one may be short)
RECURSIVE Groups(_)
Groups(P) == IF P = << >> THEN << >> ELSE <<SliceTo(P, 4)>> \o Groups(SliceFrom(P, 4))

IsZeroGroup(g) == \A i \in DOMAIN g : g[i] = "0"
NonZeroGroups(P) == SelectSeq(Groups(P), LAMBDA g : ~IsZeroGroup(g))

\* C8: for a payload of hex digits whose length is a multiple of 4,
\* DataToTroubleCodes raises nothing, and when it returns it has consumed
\* len(P)/4 groups and emitted one code per non-zero group, in payload order.
C8_OneCodePerNonZeroGroup ==
  (TroubleCodePrefix = SaePrefix /\ pc \in {"decoder", "decoderDone"}
     /\ Len(payload) % 4 = 0) =>
    /\ exc = "none"
    /\ pc = "decoderDone" =>
         /\ nGroups = Len(payload) \div 4
         /\ srcGroups = NonZeroGroups(payload)
         /\ Len(TroubleCodes) = Len(srcGroups)

\* C9: every code emitted comes from a group of 4 characters that is not
\* zero, and is prefixTable[first character] followed by the other 3.
C9_CodeFromNonZeroGroup ==
  pc \in {"decoder", "decoderDone"} =>
    \A i \in DOMAIN TroubleCodes :
      /\ Len(srcGroups[i]) = 4
      /\ ~IsZeroGroup(srcGroups[i])
      /\ TroubleCodes[i] =
           TroubleCodePrefix[srcGroups[i][1]] \o SubSeq(srcGroups[i], 2, 4)

\* C10: for a payload whose length is not a multiple of 4 the decoder does
\* not return normally, and emits no code from a group of fewer than 4
\* characters.
C10_RejectsPartialGroup ==
  (pc \in {"decoder", "decoderDone"} /\ Len(payload) % 4 # 0) =>
    /\ pc # "decoderDone"
    /\ \A i \in DOMAIN srcGroups : Len(srcGroups[i]) = 4

\* C11: a group that cannot be decoded (int() or the prefix lookup raises)
\* does not cost the codes of the other groups: once GetTroubleCodeData has
\* decoded a code, no exception of another group ends the operation.
C11_FailureIsolated ==
  (pc \in DtcSites /\ phase = "decode" /\ TroubleCodes # << >>) => exc = "none"

\* the lines of the text GetTroubleCodeData returned: every line ends with
\* a line-break
EntryLines(text) ==
  LET ls == SplitLF(text) IN SliceTo(ls, Len(ls) - 1)
Placeholder == "[DESCRIPTION NOT FOUND]"
DtcReturned ==
  /\ exc = "none"
  /\ \/ pc \in {"dtc07", "dtc0A"} /\ phase = "call"
     \/ pc \in {"close", "end"}

\* C12: the text GetTroubleCodeData returns has exactly one line per decoded
\* code, in decoder order: the code, " : ", then its description or, when the
\* table has none, [DESCRIPTION NOT FOUND].
C12_OneEntryPerCode ==
  DtcReturned =>
    /\ Len(Response) = 0 \/ Response[Len(Response)] = LF
    /\ Len(EntryLines(Response)) = Len(TroubleCodes)
    /\ \A i \in DOMAIN TroubleCodes :
         LET line == EntryLines(Response)[i]
             code == TroubleCodes[i]
         IN /\ Len(line) = Len(code) + 4
            /\ SliceTo(line, Len(code)) = code
            /\ SubSeq(line, Len(code) + 1, Len(code) + 3) = <<" ", ":", " ">>
            /\ line[Len(line)] =
                 IF code \in DOMAIN TroubleCodeDescriptions
                 THEN TroubleCodeDescriptions[code]
                 ELSE Placeholder

C12_Witness ==
  /\ pc = "close"
  /\ Len(TroubleCodes) = 2
  /\ \E i \in DOMAIN Response : Response[i] = Placeholder
  /\ \E i \in DOMAIN Response : Response[i] = "O2 Sensor Circuit Slow Response"

\* the 0-based index of the line character i of text is in, and the
\* 0-based place of the character in that line
LineIndex(text, i) == Cardinality({j \in 1..(i - 1) : text[j] = LF})
Column(text, i) ==
  LET before == {j \in 1..(i - 1) : text[j] = LF}
  IN IF before = {} THEN i - 1
     ELSE i - 1 - (CHOOSE j \in before : \A k \in before : k <= j)

\* the characters of text that are no line-break and stand at place
\* Drop(line index) or later of their line, in order
KeptChars(text, Drop(_)) ==
  LET idx == [i \in 1..Len(text) |-> i]
      kept == SelectSeq(idx, LAMBDA i :
                text[i] # LF /\ Column(text, i) >= Drop(LineIndex(text, i)))
  IN [k \in 1..Len(kept) |-> text[kept[k]]]

\* C13: PruneData(response, n) is the concatenation, in line order, of every
\* line without its first 2*n characters (nothing of a shorter line), and
\* holds no line-break.
C13_PruneDropsPairs ==
  pc = "pruned" =>
    /\ Response = KeptChars(Data, LAMBDA l : 2 * RemoveByteCount)
    /\ \A i \in DOMAIN Response : Response[i] # LF

C13_Witness ==
  /\ pc = "pruned"
  /\ Data = <<"a","b","4","1","2","3",LF>>
  /\ RemoveByteCount = 1
  /\ Response = <<"4","1","2","3">>

\* what PruneDataVin removes from the line of index l
VinDrop(l, n) == IF l = 1 THEN 8 ELSE IF l \in {2, 3} THEN 2 ELSE 2 * n

\* lines 1 to 3 of text alone, after an empty line 0
Lines1To3(text) ==
  LET idx == [i \in 1..Len(text) |-> i]
      kept == SelectSeq(idx, LAMBDA i :
                \/ LineIndex(text, i) \in {1, 2, 3}
                \/ LineIndex(text, i) = 0 /\ text[i] = LF)
  IN [k \in 1..Len(kept) |-> text[kept[k]]]

\* C14: PruneDataVin removes the first 8 characters of the line of index 1
\* and the first 2 of the lines of index 2 and 3 whatever the count, and
\* 2*RemoveByteCount of every other line; so lines 1 to 3 contribute the
\* same text for any two counts.
C14_VinFixedPrefixes ==
  pc = "prunedVin" =>
    /\ Response = KeptChars(Data, LAMBDA l : VinDrop(l, RemoveByteCount))
    /\ \A n \in 0..MaxRemove :
         PruneDataVin(Lines1To3(Data), n)
           = KeptChars(Lines1To3(Data), LAMBDA l : VinDrop(l, 0))

C14_Witness ==
  /\ pc = "prunedVin"
  /\ RemoveByteCount = 1
  /\ Data = <<"a","b","4","1","2","3",LF,
              "0","0","a","a","b","b","c","c","d","d","e","e",LF,
              "a","b","4","1","2","3",LF,
              "a","b","4","1","2","3",LF,
              "a","b","4","1","2","3">>
  /\ Response = <<"4","1","2","3","d","d","e","e",
                  "4","1","2","3","4","1","2","3","4","1","2","3">>

\* the script has decoded the text GetResponse returned last
Decoded ==
  \/ pc \in DtcSites /\ phase = "decode"
  \/ pc = "getVIN" /\ exc # "none" /\ phase = "script"
  \/ pc = "dtc03" /\ phase = "call"

\* C15: pruning again with a count >= 1 a pruned payload that is not empty
\* gives a strictly shorter text, and the script prunes each response it
\* decodes (VIN, stored, pending, permanent trouble codes) exactly once.
C15_PrunedOnce ==
  /\ (pc = "prunedTwice" /\ RemoveByteCount >= 1 /\ payload # << >>) =>
       (Response # payload /\ Len(Response) < Len(payload))
  /\ Decoded => pruneCount = 1
  /\ pc \notin {"pruner", "pruned", "prunedTwice", "prunedVin"} => pruneCount <= 1

C15_Witness ==
  /\ pc = "prunedTwice"
  /\ RemoveByteCount = 1
  /\ payload = <<"4","1","2","3">>
  /\ Response = <<"2","3">>

\* C16: a command is written only when every command written before has had
\* its response read up to the prompt, with nothing of it left unread.
C16_OneInFlight ==
  [][written' # written =>
       \/ Len(written) = 0
       \/ ~PyNe(ReadChar, PyBytes(<<PROMPT>>)) /\ wire = << >>]_vars

C16_Witness ==
  pc = "echoOff" /\ phase = "read" /\ Len(written) = 2 /\ timeouts = 0

\* C17: when the adapter sends nothing at all after AT Z, the session
\* eventually ends.
C17_SilentResetEnds ==
  (pc = "reset" /\ phase = "read" /\ wire = << >> /\ grResponse = << >>
     /\ timeouts > 0)
    ~> SessionEnded

\* the commands of the handshake, in the order of the script
Handshake ==
  <<"AT Z\r", "AT E0\r", "AT S0\r", "AT SP A3\r", "AT IB 10\r",
    "AT @1\r", "AT @2\r", "AT RV\r">>

\* C18: whatever texts the configuration commands are answered with, the
\* commands written are AT Z, AT E0, AT S0, AT SP A3, AT IB 10, AT @1, AT @2,
\* AT RV, once each and in this order, the session leaves the handshake only
\* for the connect loop, and enters the loop in the same state whichever
\* FAILED lines were printed.
C18_MismatchOnlyWarns ==
  /\ \A i \in DOMAIN written :
       IF i <= Len(Handshake) THEN written[i] = Handshake[i]
       ELSE \A j \in DOMAIN Handshake : written[i] # Handshake[j]
  /\ warned \subseteq ConfigSites
  /\ LinkState \notin {"Disconnected", "Initializing"} =>
       Len(written) >= Len(Handshake)
  /\ (pc = "loopTest" /\ ProbesSent = 0) =>
       /\ written = Handshake
       /\ Response = UNABLE_TO_CONNECT
       /\ TryCount = TryCountInit
       /\ exc = "none"
       /\ closeCount = 0

C18_Witness ==
  pc = "loopTest" /\ ProbesSent = 0 /\ warned = ConfigSites

\* C19: GetResponse raises nothing, whatever bytes come before the prompt.
C19_AnyBytesReturn == pc \in {"framer", "framerDone"} => exc = "none"

====
